---------------------------- MODULE Spec2Model ----------------------------
(***************************************************************************)
(* A model of src/src/flaresolverr_middleware.rs: the FlaresolverrMiddleware *)
(* that overlays a shared header cache on every outbound request, and on a  *)
(* 403 asks an external solver for cookies and a user agent, merges them    *)
(* into the shared state and redispatches the request once; and of its      *)
(* constructor FlaresolverrMiddleware::new.                                 *)
(*                                                                         *)
(* Each task of Tasks runs one call of Middleware::handle on the one shared *)
(* middleware instance.  A step of a task is the code between two await     *)
(* points (or between an await point and the release of a lock guard).      *)
(*                                                                         *)
(* Strings that the code takes apart or puts together are sequences of      *)
(* tokens: a cookie domain is a sequence of characters and labels           *)
(* (<<".", "example.com">> is ".example.com"), a Set-Cookie string and a    *)
(* URL are the sequences of the pieces the code formats into them.          *)
(***************************************************************************)
EXTENDS Integers, Sequences, FiniteSets, TLC

\* Number of concurrently handled requests (one handle call per task).
NumTasks == 2

Tasks == 1..NumTasks

NoTask == 0

(***************************************************************************)
(* Header maps (http::HeaderMap): a name has one or more values, kept in     *)
(* the order they were added; names are case-insensitive, kept lower-case.  *)
(***************************************************************************)
EmptyHeaders == << >>

\* HeaderMap::insert: the name gets the one value, whatever it held.
Insert(h, k, v) == [n \in (DOMAIN h) \cup {k} |-> IF n = k THEN <<v>> ELSE h[n]]

\* HeaderMap::append: the value is added to those the name holds.
AppendValue(h, k, v) ==
    [n \in (DOMAIN h) \cup {k} |->
        IF n # k THEN h[n] ELSE IF k \in DOMAIN h THEN Append(h[k], v) ELSE <<v>>]

\* HeaderMap::entry(k).or_insert(v): the value is set only if the name is absent.
OrInsert(h, k, v) == IF k \in DOMAIN h THEN h ELSE Insert(h, k, v)

\* A mutant of Overlay: the request's own value wins on collision.
OverlayRequestWins(h, cache) ==
    [n \in (DOMAIN h) \cup (DOMAIN cache) |->
        IF n \in DOMAIN h THEN h[n] ELSE <<cache[n][Len(cache[n])]>>]

\* A mutant of Overlay: the request is sent with the headers of the cache only.
OverlayCacheOnly(h, cache) == [n \in DOMAIN cache |-> <<cache[n][Len(cache[n])]>>]

\* handle, the loop `for (k, v) in real_h.iter() { h.insert(k, v.clone()) }`:
\* every (name, value) of the cache is inserted into the request's headers, so
\* a cached name ends with the last of its cached values.
Overlay(h, cache) ==
    [n \in (DOMAIN h) \cup (DOMAIN cache) |->
        IF n \in DOMAIN cache THEN <<cache[n][Len(cache[n])]>> ELSE h[n]]

AcceptDefault == "text/html,application/xhtml+xml,application/xml;q=0.9,*/*;q=0.8"

\* The five headers resolve_cloudflare inserts only if absent, and their values.
NavigationDefaults ==
    [n \in {"accept", "accept-language", "accept-encoding", "connection", "referer"} |->
        CASE n = "accept" -> AcceptDefault
          [] n = "accept-language" -> "en-US,en;q=0.9"
          [] n = "accept-encoding" -> "gzip, deflate, br"
          [] n = "connection" -> "keep-alive"
          [] n = "referer" -> "https://example.com/"]

\* A mutant of MergeHeaders: the five defaults overwrite what the cache holds.
MergeHeadersOverwrite(h, ua) ==
    LET h1 == Insert(h, "user-agent", ua)
        h2 == Insert(h1, "accept", NavigationDefaults["accept"])
        h3 == Insert(h2, "accept-language", NavigationDefaults["accept-language"])
        h4 == Insert(h3, "accept-encoding", NavigationDefaults["accept-encoding"])
        h5 == Insert(h4, "connection", NavigationDefaults["connection"])
        h6 == Insert(h5, "referer", NavigationDefaults["referer"])
        h7 == Insert(h6, "sec-fetch-mode", "navigate")
    IN  Insert(h7, "sec-fetch-site", "none")

\* A mutant of MergeHeaders: the user agent is appended, not inserted.
MergeHeadersAppending(h, ua) ==
    LET h1 == AppendValue(h, "user-agent", ua)
        h2 == OrInsert(h1, "accept", NavigationDefaults["accept"])
        h3 == OrInsert(h2, "accept-language", NavigationDefaults["accept-language"])
        h4 == OrInsert(h3, "accept-encoding", NavigationDefaults["accept-encoding"])
        h5 == OrInsert(h4, "connection", NavigationDefaults["connection"])
        h6 == OrInsert(h5, "referer", NavigationDefaults["referer"])
        h7 == Insert(h6, "sec-fetch-mode", "navigate")
    IN  Insert(h7, "sec-fetch-site", "none")

\* A mutant of MergeHeaders: only the user agent and the fetch metadata are
\* set, the navigation defaults are left out.
MergeHeadersNoDefaults(h, ua) ==
    LET h1 == Insert(h, "user-agent", ua)
        h7 == Insert(h1, "sec-fetch-mode", "navigate")
    IN  Insert(h7, "sec-fetch-site", "none")

\* A mutant of MergeHeaders: the fetch metadata are left out.
MergeHeadersNoFetchMetadata(h, ua) ==
    LET h1 == Insert(h, "user-agent", ua)
        h2 == OrInsert(h1, "accept", NavigationDefaults["accept"])
        h3 == OrInsert(h2, "accept-language", NavigationDefaults["accept-language"])
        h4 == OrInsert(h3, "accept-encoding", NavigationDefaults["accept-encoding"])
        h5 == OrInsert(h4, "connection", NavigationDefaults["connection"])
    IN  OrInsert(h5, "referer", NavigationDefaults["referer"])

\* resolve_cloudflare, the block under the write guard.
MergeHeaders(h, ua) ==
    LET h1 == Insert(h, "user-agent", ua)
        h2 == OrInsert(h1, "accept", NavigationDefaults["accept"])
        h3 == OrInsert(h2, "accept-language", NavigationDefaults["accept-language"])
        h4 == OrInsert(h3, "accept-encoding", NavigationDefaults["accept-encoding"])
        h5 == OrInsert(h4, "connection", NavigationDefaults["connection"])
        h6 == OrInsert(h5, "referer", NavigationDefaults["referer"])
        h7 == Insert(h6, "sec-fetch-mode", "navigate")
    IN  Insert(h7, "sec-fetch-site", "none")

(***************************************************************************)
(* Cookies of the solver payload.  A cookie of the payload is a JSON object, *)
(* modelled as a function from its keys to their values.                    *)
(***************************************************************************)
\* The CookieData fields without a default: serde fails when one is missing.
RequiredFields == {"name", "value", "domain", "path"}

\* serde_json::from_value::<CookieData>(cookie) succeeds.
Decodable(c) == RequiredFields \subseteq DOMAIN c

\* The CookieData a decodable cookie object deserializes to.  No field is
\* renamed, so the bool and Option fields are read from the keys that spell
\* the field names (http_only, secure, same_site, expires); any other key of
\* the object is ignored and the field takes its default.
CookieData(c) ==
    [name |-> c["name"], value |-> c["value"],
     domain |-> c["domain"], path |-> c["path"],
     expires |-> IF "expires" \in DOMAIN c THEN <<c["expires"]>> ELSE << >>,
     http_only |-> IF "http_only" \in DOMAIN c THEN c["http_only"] ELSE FALSE,
     secure |-> IF "secure" \in DOMAIN c THEN c["secure"] ELSE FALSE,
     same_site |-> IF "same_site" \in DOMAIN c THEN <<c["same_site"]>> ELSE << >>]

\* A mutant of TrimStartDots: nothing is trimmed.
TrimNothing(d) == d

\* str::trim_start_matches('.'): every leading '.' is removed.
RECURSIVE TrimStartDots(_)
TrimStartDots(d) ==
    IF d # << >> /\ Head(d) = "." THEN TrimStartDots(Tail(d)) ELSE d

\* chrono's to_rfc2822 of the timestamp (seconds since the epoch, UTC).
Rfc2822(exp) ==
    CASE exp = 1700000000 -> "Tue, 14 Nov 2023 22:13:20 +0000"
      [] exp = 2000000000 -> "Wed, 18 May 2033 03:33:20 +0000"

\* parse_cookie, the Set-Cookie string (parsed.0).
SetCookieString(data) ==
    <<data.name, "=", data.value>>
    \o (IF data.path # "" THEN <<"; Path=", data.path>> ELSE << >>)
    \o (IF data.domain # << >> THEN <<"; Domain=">> \o data.domain ELSE << >>)
    \o (IF data.secure THEN <<"; Secure">> ELSE << >>)
    \o (IF data.http_only THEN <<"; HttpOnly">> ELSE << >>)
    \o (IF data.same_site # << >> THEN <<"; SameSite=", data.same_site[1]>> ELSE << >>)
    \o (IF data.expires # << >> THEN <<"; Expires=", Rfc2822(data.expires[1])>> ELSE << >>)

\* parse_cookie, the host handed to Url::parse after "https://".
UrlHost(data) == TrimStartDots(data.domain)

\* Url::parse(..) succeeds: an https URL needs a non-empty host.
UrlParses(host) == host # << >>

\* parse_cookie, the URL the cookie is bound to (parsed.1).
DomainUrl(data) == <<"https://">> \o UrlHost(data)

\* parse_cookie returns instead of panicking in one of its unwraps.
ParseCookieOk(c) == Decodable(c) /\ UrlParses(UrlHost(CookieData(c)))

\* parse_cookie: the pair (cookie_str, domain_url).
parse_cookie(c) ==
    LET data == CookieData(c)
    IN  <<SetCookieString(data), DomainUrl(data)>>

(***************************************************************************)
(* The cookie store (reqwest::cookie::Jar): add_cookie_str parses the       *)
(* Set-Cookie string and files the cookie under (name, domain, path); a     *)
(* later cookie of the same key replaces the earlier one.  The Domain       *)
(* attribute is stored without its leading dot; without the attribute the   *)
(* cookie belongs to the host of the URL; the default path is "/".  What    *)
(* the store refuses on its own (an Expires in the past, a Domain that does *)
(* not cover the host of the URL) is not modelled: it keeps what it is      *)
(* given.                                                                   *)
(***************************************************************************)
\* The tokens that start an attribute of a Set-Cookie string.
AttrTokens ==
    {"; Path=", "; Domain=", "; Secure", "; HttpOnly", "; SameSite=", "; Expires="}

\* Whether the Set-Cookie string has the attribute `attr`.
HasAttr(str, attr) == \E i \in 1..Len(str) : str[i] = attr

\* The value of the attribute `attr` of a Set-Cookie string: the tokens from
\* the attribute's token up to the next attribute or the end of the string.
AttrOf(str, attr) ==
    LET at == CHOOSE i \in 1..Len(str) : str[i] = attr
        stop == {j \in (at + 1)..Len(str) : str[j] \in AttrTokens}
        last == IF stop = {} THEN Len(str)
                ELSE (CHOOSE j \in stop : \A k \in stop : j <= k) - 1
    IN  SubSeq(str, at + 1, last)

StripOneDot(d) == IF d # << >> /\ Head(d) = "." THEN Tail(d) ELSE d

\* The entry add_cookie_str stores for (cookie_str, url).
JarEntry(str, url) ==
    [name |-> str[1],
     domain |-> IF HasAttr(str, "; Domain=")
                THEN StripOneDot(AttrOf(str, "; Domain="))
                ELSE Tail(url),
     path |-> IF HasAttr(str, "; Path=") THEN AttrOf(str, "; Path=")[1] ELSE "/",
     value |-> str[3],
     str |-> str,
     url |-> url]

JarKey(e) == <<e.name, e.domain, e.path>>

\* A mutant of JarAdd: the cookie is stored beside the one of the same key.
JarAddBeside(jar, str, url) == jar \cup {JarEntry(str, url)}

\* resolve_cloudflare, self.cookie_jar.add_cookie_str(parsed.0, &parsed.1).
JarAdd(jar, str, url) ==
    LET new == JarEntry(str, url)
    IN  {e \in jar : JarKey(e) # JarKey(new)} \cup {new}

\* resolve_cloudflare, `for c in cookies`: the cookie store after the loop, and
\* whether the loop ran to its end (done) or a parse_cookie panicked.
RECURSIVE AddCookies(_, _)
AddCookies(jar, cookies) ==
    IF cookies = << >> THEN [jar |-> jar, done |-> TRUE]
    ELSE IF ~ParseCookieOk(Head(cookies)) THEN [jar |-> jar, done |-> FALSE]
    ELSE LET parsed == parse_cookie(Head(cookies))
         IN  AddCookies(JarAdd(jar, parsed[1], parsed[2]), Tail(cookies))

(***************************************************************************)
(* Inputs: the requests a caller hands to handle, the outcomes of the       *)
(* downstream chain `next`, and the answers of the solver.                  *)
(***************************************************************************)
\* A request: its headers, and whether its body can be cloned (try_clone).
Requests ==
    { [headers |-> [n \in {"accept", "user-agent", "x-trace"} |->
                       CASE n = "accept" -> <<"text/plain">>
                         [] n = "user-agent" -> <<"curl/8">>
                         [] n = "x-trace" -> <<"1">>],
       clonable |-> TRUE],
      [headers |-> [n \in {"x-trace"} |-> <<"2">>],
       clonable |-> FALSE] }

\* Response statuses of the downstream chain.
Statuses == {200, 403, 404}

\* What `next.run(..).await` yields: Ok(response with a status), or Err.
NextOutcomes ==
    {[err |-> FALSE, status |-> s] : s \in Statuses} \cup {[err |-> TRUE, status |-> 0]}

\* No outcome yet.
NoOutcome == [err |-> FALSE, status |-> 0]

\* Cookie objects of the solver protocol (keys name, value, domain, path,
\* and the optional expires, httpOnly, secure, sameSite).
CookieA == [name |-> "a", value |-> "1", domain |-> <<"example.com">>, path |-> "/"]

CookieB ==
    [name |-> "b", value |-> "2", domain |-> <<".", "example.com">>, path |-> "/",
     expires |-> 2000000000, httpOnly |-> TRUE, secure |-> TRUE, sameSite |-> "Lax"]

\* The key of CookieA (the leading dot of a Domain does not count), a new value.
CookieA2 == [name |-> "a", value |-> "9", domain |-> <<".", "example.com">>, path |-> "/"]

CookieC == [name |-> "c", value |-> "3", domain |-> <<".", ".", "example.com">>, path |-> "/"]

\* A cookie object without its path: CookieData cannot be decoded from it.
CookieNoPath == [name |-> "d", value |-> "4", domain |-> <<"example.com">>]

\* A cookie whose domain is a lone dot: "https://" has no host.
CookieDot == [name |-> "e", value |-> "5", domain |-> <<".">>, path |-> "/"]

\* An answer of the solver to request.get.  transport: whether send() returned
\* Ok; json: whether the body is JSON; solution: whether it has "solution";
\* cookies: "absent", "other" (present, not an array) or "array" (items);
\* ua: "absent", "other" (present, not a string) or "string" (agent).
SolverAnswer(transport, json, solution, cookies, items, ua, agent) ==
    [transport |-> transport, json |-> json, solution |-> solution,
     cookies |-> cookies, items |-> items, ua |-> ua, agent |-> agent]

\* A user agent with a control character: HeaderValue::from_str rejects it.
BadAgent == "UA\n"

FailingAnswers ==
    { SolverAnswer(FALSE, FALSE, FALSE, "absent", << >>, "absent", ""),
      SolverAnswer(TRUE, FALSE, FALSE, "absent", << >>, "absent", ""),
      SolverAnswer(TRUE, TRUE, FALSE, "absent", << >>, "absent", ""),
      SolverAnswer(TRUE, TRUE, TRUE, "absent", << >>, "string", "UA-X"),
      SolverAnswer(TRUE, TRUE, TRUE, "other", << >>, "string", "UA-X"),
      SolverAnswer(TRUE, TRUE, TRUE, "array", <<CookieA>>, "absent", ""),
      SolverAnswer(TRUE, TRUE, TRUE, "array", <<CookieA>>, "other", ""),
      SolverAnswer(TRUE, TRUE, TRUE, "array", <<CookieA, CookieNoPath>>, "string", "UA-X"),
      SolverAnswer(TRUE, TRUE, TRUE, "array", <<CookieDot>>, "string", "UA-X"),
      SolverAnswer(TRUE, TRUE, TRUE, "array", <<CookieA>>, "string", BadAgent) }

SolvedAnswers ==
    { SolverAnswer(TRUE, TRUE, TRUE, "array", <<CookieA, CookieB>>, "string", "UA-X"),
      SolverAnswer(TRUE, TRUE, TRUE, "array", <<CookieA2, CookieC>>, "string", "UA-Y"),
      SolverAnswer(TRUE, TRUE, TRUE, "array", << >>, "string", "UA-X") }

SolverAnswers == FailingAnswers \cup SolvedAnswers

\* HeaderValue::from_str(&ua) succeeds: no control character in the value.
ValidHeaderValue(v) == v # BadAgent

\* The result of resolve_cloudflare up to its request for the write guard:
\* kind "ok" (it goes on to the guard), "err" (it returned Err(what)) or
\* "panic" (the unwrap named by what panicked), and the cookie store it leaves.
Outcome(kind, what, jar) == [kind |-> kind, what |-> what, jar |-> jar]

\* resolve_cloudflare from the answer of the solver to the end of the
\* userAgent lookup.
Resolve(p, jar) ==
    IF ~p.transport THEN Outcome("err", "ConnectionProblem", jar)
    ELSE IF ~p.json THEN Outcome("panic", "resp.json", jar)
    ELSE IF ~p.solution THEN Outcome("err", "MissingSolution", jar)
    ELSE IF p.cookies = "absent" THEN Outcome("err", "MissingCookie", jar)
    ELSE IF p.cookies # "array" THEN Outcome("err", "CookiesNotAnArray", jar)
    ELSE LET added == AddCookies(jar, p.items)
         IN  IF ~added.done THEN Outcome("panic", "parse_cookie", added.jar)
             ELSE IF p.ua = "absent" THEN Outcome("err", "MIssingUA", added.jar)
             ELSE IF p.ua # "string" THEN Outcome("panic", "as_str", added.jar)
             ELSE Outcome("ok", "", added.jar)

(***************************************************************************)
(* State                                                                    *)
(***************************************************************************)
VARIABLES
    headers,      \* self.headers: the header cache under the RwLock
    cookie_jar,   \* self.cookie_jar: the entries of the shared cookie store
    readers,      \* the tasks holding a read guard of self.headers
    writer,       \* the task holding the write guard, or NoTask
    pc,           \* where each task is in handle
    req,          \* handle's `req`: the headers of the request as they are now
    orig,         \* the headers the caller gave the request
    clonable,     \* whether req.try_clone() returns Some
    snap,         \* the header cache as the task last read it under a read guard
    first,        \* the outcome of the task's first dispatch (NoOutcome before it)
    sol,          \* the answer the solver gave the task (NoAnswer before it)
    result,       \* what handle returned, or how it ended
    dispatches,   \* number of calls of next.run by the task
    alerts,       \* number of ntfy calls by the task
    solves,       \* number of resolve_cloudflare calls by the task
    solo,         \* whether no other call ran during the task's call or began since
    ctor          \* where FlaresolverrMiddleware::new is, or how it ended

vars == <<headers, cookie_jar, readers, writer, pc, req, orig, clonable, snap,
          first, sol, result, dispatches, alerts, solves, solo, ctor>>

NoAnswer == SolverAnswer(FALSE, FALSE, FALSE, "none", << >>, "none", "")

\* What a call of handle ends with: kind "none" (not ended), "ok" (Ok(res), the
\* response with `status` of dispatch number `attempt`), "err" (the Err of
\* dispatch number `attempt`, passed on by `?`) or "panic" (`why` names it).
Res(kind, status, attempt, why) ==
    [kind |-> kind, status |-> status, attempt |-> attempt, why |-> why]

NoResult == Res("none", 0, 0, "")

\* The task is inside handle.
Running(t) == pc[t] \notin {"idle", "done", "panicked"}

Init ==
    /\ headers = EmptyHeaders
    /\ cookie_jar = {}
    /\ readers = {}
    /\ writer = NoTask
    /\ pc = [t \in Tasks |-> "idle"]
    /\ req = [t \in Tasks |-> EmptyHeaders]
    /\ orig = [t \in Tasks |-> EmptyHeaders]
    /\ clonable = [t \in Tasks |-> TRUE]
    /\ snap = [t \in Tasks |-> EmptyHeaders]
    /\ first = [t \in Tasks |-> NoOutcome]
    /\ sol = [t \in Tasks |-> NoAnswer]
    /\ result = [t \in Tasks |-> NoResult]
    /\ dispatches = [t \in Tasks |-> 0]
    /\ alerts = [t \in Tasks |-> 0]
    /\ solves = [t \in Tasks |-> 0]
    /\ solo = [t \in Tasks |-> FALSE]
    /\ ctor = "built"

\* The locals of handle are dropped when it ends.
DropLocals(t) ==
    /\ req' = [req EXCEPT ![t] = EmptyHeaders]
    /\ orig' = [orig EXCEPT ![t] = EmptyHeaders]
    /\ snap' = [snap EXCEPT ![t] = EmptyHeaders]
    /\ clonable' = [clonable EXCEPT ![t] = TRUE]

KeepLocals == UNCHANGED <<req, orig, snap, clonable>>

\* handle ends with r: pc is "panicked" for a panic and "done" for a return.
EndWith(t, r) ==
    /\ result' = [result EXCEPT ![t] = r]
    /\ pc' = [pc EXCEPT ![t] = IF r.kind = "panic" THEN "panicked" ELSE "done"]
    /\ DropLocals(t)

(***************************************************************************)
(* Actions: one call of handle, step by step                                *)
(***************************************************************************)
\* The outer client calls handle(req, extensions, next) in task t, on the
\* middleware that new has returned.
Start(t) ==
    /\ ctor = "built"
    /\ pc[t] = "idle"
    /\ \E r \in Requests :
          /\ req' = [req EXCEPT ![t] = r.headers]
          /\ orig' = [orig EXCEPT ![t] = r.headers]
          /\ clonable' = [clonable EXCEPT ![t] = r.clonable]
    /\ pc' = [pc EXCEPT ![t] = "read1"]
    /\ solo' = [u \in Tasks |-> u = t /\ \A v \in Tasks \ {t} : ~Running(v)]
    /\ UNCHANGED <<headers, cookie_jar, readers, writer, snap, first, sol,
                   result, dispatches, alerts, solves, ctor>>

\* A mutant of CanRead: a read guard is given while a writer holds the lock.
CanReadBesideWriter == TRUE

\* tokio RwLock::read().await returns a guard: no writer holds the lock.
CanRead == writer = NoTask

\* tokio RwLock::write().await returns a guard: nobody holds the lock.
CanWrite == writer = NoTask /\ readers = {}

\* handle: `let real_h = self.headers.read().await` before the first dispatch.
AcquireRead1(t) ==
    /\ pc[t] = "read1"
    /\ CanRead
    /\ readers' = readers \cup {t}
    /\ pc' = [pc EXCEPT ![t] = "held1"]
    /\ UNCHANGED <<headers, cookie_jar, writer, req, orig, clonable, snap, first,
                   sol, result, dispatches, alerts, solves, solo, ctor>>

\* A mutant of Blocked: every client or server error counts as a block.
BlockedAnyError(status) == status >= 400

\* The status on which handle asks the solver.
Blocked(status) == status = 403

\* A mutant of OverlayDispatch1: the read guard is kept across the dispatch.
OverlayDispatch1HoldingGuard(t) ==
    /\ pc[t] = "held1"
    /\ UNCHANGED readers
    /\ IF clonable[t]
       THEN /\ req' = [req EXCEPT ![t] = Overlay(req[t], headers)]
            /\ snap' = [snap EXCEPT ![t] = headers]
            /\ dispatches' = [dispatches EXCEPT ![t] = @ + 1]
            /\ pc' = [pc EXCEPT ![t] = "await1"]
            /\ UNCHANGED <<orig, clonable, result>>
       ELSE /\ EndWith(t, Res("panic", 0, 0, "try_clone"))
            /\ UNCHANGED dispatches
    /\ UNCHANGED <<headers, cookie_jar, writer, first, sol, alerts, solves, solo, ctor>>

\* handle: the overlay under the read guard, the end of the guard's block, then
\* req.try_clone().unwrap() and the call of next.run with the clone.
OverlayDispatch1(t) ==
    /\ pc[t] = "held1"
    /\ readers' = readers \ {t}
    /\ IF clonable[t]
       THEN /\ req' = [req EXCEPT ![t] = Overlay(req[t], headers)]
            /\ snap' = [snap EXCEPT ![t] = headers]
            /\ dispatches' = [dispatches EXCEPT ![t] = @ + 1]
            /\ pc' = [pc EXCEPT ![t] = "await1"]
            /\ UNCHANGED <<orig, clonable, result>>
       ELSE /\ EndWith(t, Res("panic", 0, 0, "try_clone"))
            /\ UNCHANGED dispatches
    /\ UNCHANGED <<headers, cookie_jar, writer, first, sol, alerts, solves, solo, ctor>>

\* A mutant of Respond1: an error of the first dispatch is treated like a 403.
Respond1SolvingOnError(t) ==
    /\ pc[t] = "await1"
    /\ \E o \in NextOutcomes :
          /\ first' = [first EXCEPT ![t] = o]
          /\ IF o.err \/ Blocked(o.status)
             THEN /\ alerts' = [alerts EXCEPT ![t] = @ + 1]
                  /\ pc' = [pc EXCEPT ![t] = "alert"]
                  /\ KeepLocals
                  /\ UNCHANGED result
             ELSE /\ EndWith(t, Res("ok", o.status, 1, ""))
                  /\ UNCHANGED alerts
    /\ UNCHANGED <<headers, cookie_jar, readers, writer, sol, dispatches, solves,
                   solo, ctor>>

\* handle: the first next.run(..).await returns; `?` passes an error on, a
\* status other than 403 is returned, and on 403 ntfy is called.
Respond1(t) ==
    /\ pc[t] = "await1"
    /\ \E o \in NextOutcomes :
          /\ first' = [first EXCEPT ![t] = o]
          /\ IF o.err
             THEN /\ EndWith(t, Res("err", 0, 1, "next"))
                  /\ UNCHANGED alerts
             ELSE IF Blocked(o.status)
             THEN /\ alerts' = [alerts EXCEPT ![t] = @ + 1]
                  /\ pc' = [pc EXCEPT ![t] = "alert"]
                  /\ KeepLocals
                  /\ UNCHANGED result
             ELSE /\ EndWith(t, Res("ok", o.status, 1, ""))
                  /\ UNCHANGED alerts
    /\ UNCHANGED <<headers, cookie_jar, readers, writer, sol, dispatches, solves,
                   solo, ctor>>

\* A mutant of NtfyReturns: no solve is made when the cache already holds the
\* user agent of a solve of another call; the call goes on to its retry.
NtfyReturnsDeduplicating(t) ==
    /\ pc[t] = "alert"
    /\ IF "user-agent" \in DOMAIN headers
       THEN /\ pc' = [pc EXCEPT ![t] = "read2"]
            /\ UNCHANGED solves
       ELSE /\ solves' = [solves EXCEPT ![t] = @ + 1]
            /\ pc' = [pc EXCEPT ![t] = "solving"]
    /\ UNCHANGED <<headers, cookie_jar, readers, writer, req, orig, clonable, snap,
                   first, sol, result, dispatches, alerts, solo, ctor>>

\* handle: ntfy(..).await returns, whether its POST succeeded or failed (ntfy
\* drops the result), and resolve_cloudflare sends request.get to the solver.
NtfyReturns(t) ==
    /\ pc[t] = "alert"
    /\ \E posted \in BOOLEAN :
          /\ solves' = [solves EXCEPT ![t] = @ + 1]
          /\ pc' = [pc EXCEPT ![t] = "solving"]
    /\ UNCHANGED <<headers, cookie_jar, readers, writer, req, orig, clonable, snap,
                   first, sol, result, dispatches, alerts, solo, ctor>>

\* handle: self.resolve_cloudflare(&mut req).await.unwrap() for a solve that
\* ended before the write guard: the Err panics in unwrap, as the panic did.
UnwrapSolve(t, out) ==
    EndWith(t, Res("panic", 0, 0, out.what))

\* resolve_cloudflare: the solver answers; the answer is taken apart, its
\* cookies are added to the cookie store, its userAgent is looked up.
SolverResponds(t) ==
    /\ pc[t] = "solving"
    /\ \E p \in SolverAnswers :
          LET out == Resolve(p, cookie_jar)
          IN  /\ sol' = [sol EXCEPT ![t] = p]
              /\ cookie_jar' = out.jar
              /\ IF out.kind = "ok"
                 THEN /\ pc' = [pc EXCEPT ![t] = "write"]
                      /\ KeepLocals
                      /\ UNCHANGED result
                 ELSE UnwrapSolve(t, out)
    /\ UNCHANGED <<headers, readers, writer, first, dispatches, alerts, solves,
                   solo, ctor>>

\* resolve_cloudflare: `let mut headers = self.headers.write().await`.
AcquireWrite(t) ==
    /\ pc[t] = "write"
    /\ CanWrite
    /\ writer' = t
    /\ pc' = [pc EXCEPT ![t] = "merging"]
    /\ UNCHANGED <<headers, cookie_jar, readers, req, orig, clonable, snap, first,
                   sol, result, dispatches, alerts, solves, solo, ctor>>

\* resolve_cloudflare: the block under the write guard, to the guard's end;
\* HeaderValue::from_str(&ua).unwrap() panics before anything is inserted, and
\* the unwinding drops the guard.
Merge(t) ==
    /\ pc[t] = "merging"
    /\ writer' = NoTask
    /\ IF ValidHeaderValue(sol[t].agent)
       THEN /\ headers' = MergeHeaders(headers, sol[t].agent)
            /\ pc' = [pc EXCEPT ![t] = "read2"]
            /\ KeepLocals
            /\ UNCHANGED result
       ELSE /\ EndWith(t, Res("panic", 0, 0, "HeaderValue::from_str"))
            /\ UNCHANGED headers
    /\ UNCHANGED <<cookie_jar, readers, first, sol, dispatches, alerts, solves,
                   solo, ctor>>

\* handle: `let real_h = self.headers.read().await` before the retry.
AcquireRead2(t) ==
    /\ pc[t] = "read2"
    /\ CanRead
    /\ readers' = readers \cup {t}
    /\ pc' = [pc EXCEPT ![t] = "held2"]
    /\ UNCHANGED <<headers, cookie_jar, writer, req, orig, clonable, snap, first,
                   sol, result, dispatches, alerts, solves, solo, ctor>>

\* handle: the second overlay under the read guard, the end of the guard's
\* block, then next.run(req, extensions) with the request itself.
OverlayDispatch2(t) ==
    /\ pc[t] = "held2"
    /\ readers' = readers \ {t}
    /\ req' = [req EXCEPT ![t] = Overlay(req[t], headers)]
    /\ snap' = [snap EXCEPT ![t] = headers]
    /\ dispatches' = [dispatches EXCEPT ![t] = @ + 1]
    /\ pc' = [pc EXCEPT ![t] = "await2"]
    /\ UNCHANGED <<headers, cookie_jar, writer, orig, clonable, first, sol, result,
                   alerts, solves, solo, ctor>>

\* A mutant of Respond2: handle returns the response it got first.
Respond2ReturnsFirst(t) ==
    /\ pc[t] = "await2"
    /\ \E o \in NextOutcomes :
          IF o.err
          THEN EndWith(t, Res("err", 0, 2, "next"))
          ELSE EndWith(t, Res("ok", first[t].status, 1, ""))
    /\ UNCHANGED <<headers, cookie_jar, readers, writer, first, sol, dispatches,
                   alerts, solves, solo, ctor>>

\* A mutant of Respond2: a second 403 is treated like the first.
Respond2Retrying(t) ==
    /\ pc[t] = "await2"
    /\ \E o \in NextOutcomes :
          IF o.err
          THEN EndWith(t, Res("err", 0, 2, "next")) /\ UNCHANGED alerts
          ELSE IF Blocked(o.status)
          THEN /\ alerts' = [alerts EXCEPT ![t] = @ + 1]
               /\ pc' = [pc EXCEPT ![t] = "alert"]
               /\ KeepLocals
               /\ UNCHANGED result
          ELSE EndWith(t, Res("ok", o.status, 2, "")) /\ UNCHANGED alerts
    /\ UNCHANGED <<headers, cookie_jar, readers, writer, first, sol, dispatches,
                   solves, solo, ctor>>

\* handle: the second next.run(..).await returns; `?` passes an error on, and
\* any response is returned.
Respond2(t) ==
    /\ pc[t] = "await2"
    /\ \E o \in NextOutcomes :
          IF o.err
          THEN EndWith(t, Res("err", 0, 2, "next"))
          ELSE EndWith(t, Res("ok", o.status, 2, ""))
    /\ UNCHANGED <<headers, cookie_jar, readers, writer, first, sol, dispatches,
                   alerts, solves, solo, ctor>>

Next ==
    \E t \in Tasks :
        \/ Start(t)
        \/ AcquireRead1(t)
        \/ OverlayDispatch1(t)
        \/ Respond1(t)
        \/ NtfyReturns(t)
        \/ SolverResponds(t)
        \/ AcquireWrite(t)
        \/ Merge(t)
        \/ AcquireRead2(t)
        \/ OverlayDispatch2(t)
        \/ Respond2(t)

Spec == Init /\ [][Next]_vars

(***************************************************************************)
(* The merge on any header cache: every task has had its 403 and waits for   *)
(* the answer of the solver, and the cache holds headers of any kind (its   *)
(* own user agent with two values, values other than the defaults, a name   *)
(* the merge does not know).                                                *)
(***************************************************************************)
CacheSeeds ==
    { EmptyHeaders,
      [n \in {"accept", "user-agent", "sec-fetch-mode", "x-api-key"} |->
          CASE n = "accept" -> <<"text/plain">>
            [] n = "user-agent" -> <<"old-1", "old-2">>
            [] n = "sec-fetch-mode" -> <<"cors">>
            [] n = "x-api-key" -> <<"k">>],
      [n \in {"accept-language", "accept-encoding", "connection", "referer",
              "sec-fetch-site"} |->
          CASE n = "accept-language" -> <<"de">>
            [] n = "accept-encoding" -> <<"identity">>
            [] n = "connection" -> <<"close">>
            [] n = "referer" -> <<"https://r.example/">>
            [] n = "sec-fetch-site" -> <<"same-origin">>] }

InitMerge ==
    /\ headers \in CacheSeeds
    /\ cookie_jar = {}
    /\ readers = {}
    /\ writer = NoTask
    /\ pc = [t \in Tasks |-> "solving"]
    /\ \E r \in {q \in Requests : q.clonable} :
          /\ orig = [t \in Tasks |-> r.headers]
          /\ req = [t \in Tasks |-> Overlay(r.headers, headers)]
    /\ clonable = [t \in Tasks |-> TRUE]
    /\ snap = [t \in Tasks |-> headers]
    /\ first = [t \in Tasks |-> [err |-> FALSE, status |-> 403]]
    /\ sol = [t \in Tasks |-> NoAnswer]
    /\ result = [t \in Tasks |-> NoResult]
    /\ dispatches = [t \in Tasks |-> 1]
    /\ alerts = [t \in Tasks |-> 1]
    /\ solves = [t \in Tasks |-> 1]
    /\ solo = [t \in Tasks |-> FALSE]
    /\ ctor = "built"

NextMerge ==
    \E t \in Tasks :
        \/ SolverResponds(t)
        \/ AcquireWrite(t)
        \/ Merge(t)
        \/ AcquireRead2(t)
        \/ OverlayDispatch2(t)
        \/ Respond2(t)

SpecMerge == InitMerge /\ [][NextMerge]_vars

(***************************************************************************)
(* Progress.  Every step of a call but one is taken sooner or later: the    *)
(* downstream chain and the solver answer, a lock that is free is granted.  *)
(* The return of ntfy is left out: ntfy awaits the send() of a client built *)
(* by Client::new(), which sets no timeout, so it returns when the          *)
(* notification endpoint answers or the connection fails, and not before.   *)
(***************************************************************************)
\* The steps of task t other than the return of its alert.
StepsButAlert(t) ==
    \/ Start(t)
    \/ AcquireRead1(t)
    \/ OverlayDispatch1(t)
    \/ Respond1(t)
    \/ SolverResponds(t)
    \/ AcquireWrite(t)
    \/ Merge(t)
    \/ AcquireRead2(t)
    \/ OverlayDispatch2(t)
    \/ Respond2(t)

SpecAlert == Init /\ [][Next]_vars /\ \A t \in Tasks : WF_vars(StepsButAlert(t))

\* Every step of a call is taken sooner or later: every dispatch, every alert
\* and every call of the solver returns, and the lock is fair.  A call runs
\* once per task, so a guard that is asked for is not overtaken for ever.
SpecFair ==
    Init /\ [][Next]_vars
         /\ \A t \in Tasks : WF_vars(StepsButAlert(t) \/ NtfyReturns(t))

(***************************************************************************)
(* Construction: FlaresolverrMiddleware::new builds the middleware with an  *)
(* empty header cache, sends the alert "Constructed", asks the solver to    *)
(* create the session and to list its sessions, and returns the middleware. *)
(***************************************************************************)
\* What send() of sessions.create yields: Ok(response) or Err.
CreateOutcomes == {"ok", "err"}

\* What sessions.list yields: Err of send(), a response whose body is JSON,
\* or a response whose body is not JSON.
ListOutcomes == {"err", "json", "other"}

\* new has built the struct and awaits ntfy("Constructed", ..).
InitNew ==
    /\ headers = EmptyHeaders
    /\ cookie_jar = {}
    /\ readers = {}
    /\ writer = NoTask
    /\ pc = [t \in Tasks |-> "idle"]
    /\ req = [t \in Tasks |-> EmptyHeaders]
    /\ orig = [t \in Tasks |-> EmptyHeaders]
    /\ clonable = [t \in Tasks |-> TRUE]
    /\ snap = [t \in Tasks |-> EmptyHeaders]
    /\ first = [t \in Tasks |-> NoOutcome]
    /\ sol = [t \in Tasks |-> NoAnswer]
    /\ result = [t \in Tasks |-> NoResult]
    /\ dispatches = [t \in Tasks |-> 0]
    /\ alerts = [t \in Tasks |-> 0]
    /\ solves = [t \in Tasks |-> 0]
    /\ solo = [t \in Tasks |-> FALSE]
    /\ ctor = "ntfy"

OnlyCtor ==
    UNCHANGED <<headers, cookie_jar, readers, writer, pc, req, orig, clonable, snap,
                first, sol, result, dispatches, alerts, solves, solo>>

\* new: ntfy(..).await returns (ntfy drops the result of its POST), and
\* create_session sends sessions.create.
NewNtfyReturns ==
    /\ ctor = "ntfy"
    /\ ctor' = "create"
    /\ OnlyCtor

\* new: `middleware.create_session().await?`: an Err of send() is returned by
\* new; any response goes on to list_sessions, which sends sessions.list.
CreateSessionResponds ==
    /\ ctor = "create"
    /\ \E o \in CreateOutcomes : ctor' = IF o = "err" THEN "error" ELSE "list"
    /\ OnlyCtor

\* new: `let _ = middleware.list_sessions().await` and Ok(middleware).  In
\* list_sessions an Err of send() is skipped by `if let Ok(resp)`, and for a
\* response `resp.json::<Value>().await.unwrap()` panics when the body is not
\* JSON.
ListSessionsResponds ==
    /\ ctor = "list"
    /\ \E o \in ListOutcomes : ctor' = IF o = "other" THEN "panicked" ELSE "built"
    /\ OnlyCtor

NextNew ==
    \/ NewNtfyReturns
    \/ CreateSessionResponds
    \/ ListSessionsResponds
    \/ Next

SpecNew == InitNew /\ [][NextNew]_vars

(***************************************************************************)
(* Properties                                                               *)
(***************************************************************************)
\* The request of task t is with the downstream chain.
InFlight(t) == pc[t] \in {"await1", "await2"}

\* The first response of task t was a 403.
FirstBlocked(t) == ~first[t].err /\ first[t].status = 403

\* Task t's call has ended, by a return or by a panic.
Ended(t) == pc[t] \in {"done", "panicked"}

\* C1: the headers of every dispatched request, the first and the retry, are
\* the caller's headers overlaid by the header cache as read just before that
\* dispatch: every cached name carries the cached value, every other header of
\* the request is kept, and no other name is present.
C1_DispatchIsOverlay ==
    \A t \in Tasks :
        InFlight(t) =>
            /\ DOMAIN req[t] = (DOMAIN orig[t]) \cup (DOMAIN snap[t])
            /\ \A n \in DOMAIN snap[t] : req[t][n] = snap[t][n]
            /\ \A n \in (DOMAIN orig[t]) \ (DOMAIN snap[t]) : req[t][n] = orig[t][n]

\* A retry is in flight whose request had headers of its own that collide with
\* the cache (accept, user-agent) and one that does not (x-trace).
C1_Witness ==
    \E t \in Tasks :
        /\ pc[t] = "await2"
        /\ {"accept", "x-trace"} \subseteq DOMAIN orig[t]
        /\ "accept" \in DOMAIN snap[t]
        /\ snap[t]["accept"] # orig[t]["accept"]

\* C2: after a first 403 and a successful solve, handle dispatches the request
\* exactly once more and returns what that second dispatch yields, whatever
\* its status: there is one solve and there are two dispatches, never more.
C2_OneRetryReturned ==
    \A t \in Tasks :
        (FirstBlocked(t) /\ sol[t] \in SolvedAnswers) =>
            /\ dispatches[t] <= 2
            /\ solves[t] = 1
            /\ pc[t] # "panicked"
            /\ pc[t] = "done" =>
                  /\ dispatches[t] = 2
                  /\ result[t].kind \in {"ok", "err"}
                  /\ result[t].attempt = 2

\* A call has returned the 403 of its second dispatch.
C2_Witness ==
    \E t \in Tasks :
        /\ pc[t] = "done"
        /\ FirstBlocked(t)
        /\ result[t] = Res("ok", 403, 2, "")

\* The state of the spec's per-request state machine that task t is in.
Phase(t) ==
    CASE pc[t] \in {"idle", "read1", "held1"} -> "New"
      [] pc[t] = "await1" -> "Sent"
      [] pc[t] \in {"alert", "solving", "write", "merging"} -> "Solving"
      [] pc[t] \in {"read2", "held2", "await2"} -> "Retried"
      [] pc[t] = "done" -> "Done"
      [] pc[t] = "panicked" /\ result[t].why = "try_clone" -> "Aborted"
      [] pc[t] = "panicked" /\ result[t].why # "try_clone" -> "Failed"

\* The transitions of the spec's state machine from Sent on.
MachineSteps ==
    { <<"Sent", "Done">>, <<"Sent", "Solving">>, <<"Solving", "Retried">>,
      <<"Solving", "Failed">>, <<"Retried", "Done">> }

\* C3, the steps: a call that has been sent changes its state only along
\* Sent -> Done, Sent -> Solving -> Retried -> Done and Solving -> Failed; Done
\* and Failed are left by no step.
C3_StepsFollowMachine ==
    \A t \in Tasks :
        (Phase(t) \in {"Sent", "Solving", "Retried", "Done", "Failed"}
           /\ Phase(t)' # Phase(t))
        => <<Phase(t), Phase(t)'>> \in MachineSteps

\* C3, the counts: the solver is called at most once per call, and only after
\* a first 403; a call that has ended has called it iff its first response was
\* a 403; next is called at most twice, a second time only after a solve
\* that succeeded.
C3_Counts ==
    \A t \in Tasks :
        /\ solves[t] <= 1
        /\ dispatches[t] <= 2
        /\ solves[t] = 1 => FirstBlocked(t)
        /\ Ended(t) => (solves[t] = 1 <=> FirstBlocked(t))
        /\ dispatches[t] = 2 => (solves[t] = 1 /\ sol[t] \in SolvedAnswers)

\* C3: every call follows the state machine Sent -> Done | Sent -> Solving ->
\* (Retried -> Done | Failed), with at most one solve and at most one retry.
C3_StateMachine == [][C3_StepsFollowMachine]_vars /\ []C3_Counts

\* One call has ended in Failed and another in Done after a retry.
C3_Witness ==
    \E t, u \in Tasks :
        /\ Phase(t) = "Failed"
        /\ Phase(u) = "Done" /\ dispatches[u] = 2

\* The steps of a call up to the arrival of its first response: all the steps
\* of a call whose first response is not a 403.
FirstAttemptStep(t) ==
    pc[t] \in {"idle", "read1", "held1", "await1"} /\ pc'[t] # pc[t]

\* C4, the result: a first response with a status other than 403 is what
\* handle returns, and that call has sent no alert, called no solver and
\* dispatched once.
C4_PassedThrough ==
    \A t \in Tasks :
        (~first[t].err /\ first[t].status \in Statuses \ {403}) =>
            /\ pc[t] = "done"
            /\ result[t] = Res("ok", first[t].status, 1, "")
            /\ alerts[t] = 0 /\ solves[t] = 0 /\ dispatches[t] = 1

\* C4: a first response with any status other than 403 is returned as it is,
\* without alert, solver call or second dispatch, and no step of that call
\* changes the header cache or the cookie store.
C4_NonBlockedUntouched ==
    /\ []C4_PassedThrough
    /\ [][\A t \in Tasks : FirstAttemptStep(t) => UNCHANGED <<headers, cookie_jar>>]_vars

\* A call has returned a first 404 while the shared state holds a solve of
\* another call.
C4_Witness ==
    \E t \in Tasks :
        /\ pc[t] = "done" /\ result[t] = Res("ok", 404, 1, "")
        /\ headers # EmptyHeaders /\ cookie_jar # {}

\* C5 (as claimed): when the first response is a 403 and the solve fails,
\* handle ends by returning the error of the solve to its caller as an error
\* result; it does not end in a panic.
C5_SolveErrorReturned ==
    \A t \in Tasks :
        (FirstBlocked(t) /\ sol[t] \in FailingAnswers /\ Ended(t)) =>
            /\ result[t].kind = "err"
            /\ dispatches[t] = 1

\* C6 (as claimed): a solve that ends in any failure leaves the cookie store
\* and the header cache as they were before the answer of the solver arrived.
C6_FailedSolveLeavesState ==
    [][\A t \in Tasks :
          (pc[t] = "solving" /\ pc'[t] = "panicked")
          => (cookie_jar' = cookie_jar /\ headers' = headers)]_vars

\* The step in which task t sends its retry, for a request that has an Accept
\* of its own and was first read against a cache without Accept.
RetryOfOwnAccept(t) ==
    /\ pc[t] = "held2" /\ pc'[t] = "await2"
    /\ "accept" \in DOMAIN orig[t]
    /\ "accept" \notin DOMAIN snap[t]

\* C7 (as claimed): ... the redispatched request still carries the Accept
\* value of the request, and its User-Agent is the solved user agent.
C7_OwnAcceptKept ==
    [][\A t \in Tasks :
          RetryOfOwnAccept(t) =>
              /\ req'[t]["accept"] = orig[t]["accept"]
              /\ req'[t]["user-agent"] = <<sol[t].agent>>]_vars

\* C7 (amended): for a request with an Accept of its own, handled while the
\* cache has no Accept, the request sent after a 403 and a successful solve
\* carries the default Accept the solve put into the cache, not its own, and
\* the User-Agent of the cache at the retry, which is the solved one when no
\* other call ran meanwhile.
C7_OwnAcceptReplaced ==
    [][\A t \in Tasks :
          RetryOfOwnAccept(t) =>
              /\ req'[t]["accept"] = <<AcceptDefault>>
              /\ req'[t]["accept"] # orig[t]["accept"]
              /\ req'[t]["user-agent"] = headers["user-agent"]
              /\ "user-agent" \in DOMAIN orig[t]
                    => req'[t]["user-agent"] # orig[t]["user-agent"]
              /\ solo[t] => req'[t]["user-agent"] = <<sol[t].agent>>]_vars

\* A retry is in flight for a request that came with Accept: text/plain and
\* User-Agent: curl/8 when no other call had run.
C7_Witness ==
    \E t \in Tasks :
        /\ pc[t] = "await2" /\ solo[t]
        /\ orig[t]["accept"] = <<"text/plain">>
        /\ orig[t]["user-agent"] = <<"curl/8">>
        /\ \A u \in Tasks \ {t} : pc[u] = "idle"

\* The step in which task t merges its solved user agent into the cache.
MergeStep(t) == pc[t] = "merging" /\ pc'[t] = "read2"

\* The step in which the cookies of a solve of task t that goes on to the
\* merge are added to the cookie store.
JarStep(t) == pc[t] = "solving" /\ pc'[t] = "write"

AlwaysSet == {"user-agent", "sec-fetch-mode", "sec-fetch-site"}

\* C8: a merge sets User-Agent to the solved value and Sec-Fetch-Mode and
\* Sec-Fetch-Site to navigate and none whatever the cache held; each of the
\* five navigation headers gets its default only if the cache had no entry of
\* that name and keeps its value otherwise; no other entry is touched.
C8_MergePolicy ==
    [][\A t \in Tasks :
          MergeStep(t) =>
              /\ headers'["user-agent"] = <<sol[t].agent>>
              /\ headers'["sec-fetch-mode"] = <<"navigate">>
              /\ headers'["sec-fetch-site"] = <<"none">>
              /\ \A n \in DOMAIN NavigationDefaults :
                    headers'[n] = IF n \in DOMAIN headers THEN headers[n]
                                  ELSE <<NavigationDefaults[n]>>
              /\ DOMAIN headers' =
                    (DOMAIN headers) \cup AlwaysSet \cup (DOMAIN NavigationDefaults)
              /\ \A n \in (DOMAIN headers) \ (AlwaysSet \cup DOMAIN NavigationDefaults) :
                    headers'[n] = headers[n]]_vars

\* A merge has been made into a cache that held an Accept of its own, a user
\* agent of two values, another fetch mode and a name the merge does not know.
C8_Witness ==
    \E t \in Tasks :
        /\ pc[t] = "read2"
        /\ "x-api-key" \in DOMAIN headers
        /\ headers["accept"] = <<"text/plain">>
        /\ headers["user-agent"] = <<sol[t].agent>>

\* The cookie store holds at most one entry per (name, domain, path).
OnePerKey ==
    \A e1, e2 \in cookie_jar :
        (e1.name = e2.name /\ e1.domain = e2.domain /\ e1.path = e2.path) => e1 = e2

\* Every cookie of the list is in the cookie store as the list would store it.
AllStored(items, jar) ==
    \A i \in 1..Len(items) :
        JarEntry(parse_cookie(items[i])[1], parse_cookie(items[i])[2]) \in jar

\* C9, the steps: merging the result that was just merged changes nothing, in
\* the header cache and in the cookie store.
C9_SecondMergeNoChange ==
    \A t \in Tasks :
        /\ MergeStep(t) =>
              /\ MergeHeaders(headers', sol[t].agent) = headers'
              /\ ("user-agent" \in DOMAIN headers
                    /\ headers["user-agent"] = <<sol[t].agent>>) => headers' = headers
        /\ JarStep(t) =>
              /\ AddCookies(cookie_jar', sol'[t].items).jar = cookie_jar'
              /\ AllStored(sol'[t].items, cookie_jar) => cookie_jar' = cookie_jar

\* C9: merging the same solve result twice in a row is idempotent: the second
\* merge leaves the header cache as the first left it, and the cookie store
\* holds one entry per (name, domain, path), the later write replacing the
\* earlier one.
C9_MergeIdempotent == [][C9_SecondMergeNoChange]_vars /\ []OnePerKey

\* Two calls have merged the same solve result, cookies and user agent.
C9_Witness ==
    \E t, u \in Tasks :
        /\ t # u
        /\ sol[t] = sol[u] /\ sol[t] \in SolvedAnswers /\ sol[t].items # << >>
        /\ {pc[t], pc[u]} \subseteq {"read2", "held2", "await2", "done"}

\* The entry e of the cookie store is the cookie c of a solver answer, bound to
\* the https origin of c's domain without its leading dots.
BoundToOrigin(e, c) ==
    /\ e.name = c.name /\ e.value = c.value /\ e.path = c.path
    /\ Head(e.url) = "https://"
    /\ LET host == Tail(e.url)
       IN  /\ host # << >> /\ Head(host) # "."
           /\ \E k \in 0..Len(c.domain) :
                 /\ \A i \in 1..k : c.domain[i] = "."
                 /\ host = SubSeq(c.domain, k + 1, Len(c.domain))
    /\ c.domain \in {<<"example.com">>, <<".", "example.com">>}
          => e.url = <<"https://", "example.com">>

\* C10: when a call whose first response was a 403 and whose solve returned
\* cookies c1..cn and user agent U has completed, and no other call ran
\* meanwhile or since, the cookie store has an entry for every ci, bound to the
\* https origin of its domain without the leading dot, the User-Agent of the
\* header cache is U, and the call has redispatched exactly once.
C10_SolvedCallState ==
    \A t \in Tasks :
        (pc[t] = "done" /\ FirstBlocked(t) /\ sol[t] \in SolvedAnswers /\ solo[t]) =>
            /\ \A i \in 1..Len(sol[t].items) :
                  \E e \in cookie_jar : BoundToOrigin(e, sol[t].items[i])
            /\ headers["user-agent"] = <<sol[t].agent>>
            /\ dispatches[t] = 2

\* The example of the spec: cookies a for example.com and b for .example.com
\* with user agent UA-X; both entries are bound to https://example.com.
C10_Witness ==
    \E t \in Tasks :
        /\ pc[t] = "done" /\ FirstBlocked(t) /\ solo[t]
        /\ sol[t].items = <<CookieA, CookieB>> /\ sol[t].agent = "UA-X"
        /\ Cardinality({e \in cookie_jar : e.url = <<"https://", "example.com">>}) = 2

\* The error kind the spec gives to a malformed answer of the solver whose
\* cookies, if any, can all be parsed ("" for an answer it has no kind for).
ClaimedKind(p) ==
    IF ~p.transport THEN "ConnectionProblem"
    ELSE IF ~p.json THEN ""
    ELSE IF ~p.solution THEN "MissingSolution"
    ELSE IF p.cookies = "absent" THEN "MissingCookie"
    ELSE IF p.cookies # "array" THEN "CookiesNotAnArray"
    ELSE IF p.ua \in {"absent", "other"} THEN "MIssingUA"
    ELSE ""

\* C11 (as claimed): the solve of a call ends with the error kind of the
\* malformed answer it got: ConnectionProblem for a transport failure,
\* MissingSolution, MissingCookie, CookiesNotAnArray for an answer without
\* solution, without cookies, with cookies that are no array, and
\* MissingUserAgent (MIssingUA in the code) for a userAgent that is absent or
\* not a string; the call does not end with its 403.
C11_KindPerOutcome ==
    \A t \in Tasks :
        (Ended(t) /\ FirstBlocked(t) /\ ClaimedKind(sol[t]) # ""
           /\ \A i \in 1..Len(sol[t].items) : ParseCookieOk(sol[t].items[i])) =>
            /\ result[t].why = ClaimedKind(sol[t])
            /\ result[t].kind # "ok"
            /\ dispatches[t] = 1

\* C12 (as claimed): a request that cannot be cloned is dispatched on its
\* first attempt all the same; a call ends because of the failed clone only
\* after that dispatch was answered by a 403, and then by returning an error,
\* not by a panic.
C12_NonClonableDispatched ==
    \A t \in Tasks :
        /\ pc[t] \notin {"idle", "read1", "held1"} => dispatches[t] >= 1
        /\ (Ended(t) /\ result[t].why = "try_clone") =>
              /\ result[t].kind = "err"
              /\ dispatches[t] = 1
              /\ FirstBlocked(t)

\* C13: solves are not shared and the decision to solve is the call's own: a
\* call whose first response was a 403 makes its own call of the solver (one,
\* once its alert has returned) whatever the other calls have done, also when
\* the cache already holds the result of another call's solve; a call whose
\* first response was not a 403 makes no call of the solver, sends no alert
\* and dispatches once, whatever the other calls got.  So the calls of the
\* solver are as many as the calls that went on from a 403.
C13_NoDedupLocalRetry ==
    /\ \A t \in Tasks :
          /\ (FirstBlocked(t) /\ pc[t] # "alert") => solves[t] = 1
          /\ (FirstBlocked(t) /\ pc[t] = "alert") => solves[t] = 0
          /\ ~FirstBlocked(t) => (solves[t] = 0 /\ alerts[t] = 0 /\ dispatches[t] <= 1)
    /\ Cardinality({t \in Tasks : solves[t] = 1})
          = Cardinality({t \in Tasks : FirstBlocked(t) /\ pc[t] # "alert"})

\* Task u has merged its solve and been retried; task t, whose first dispatch
\* already carried the user agent of that solve, got a 403 and has called the
\* solver itself, while u's call is still the only other one.
C13_Witness ==
    \E t, u \in Tasks :
        /\ t # u
        /\ pc[u] \in {"await2", "done"} /\ solves[u] = 1 /\ sol[u] \in SolvedAnswers
        /\ pc[t] = "solving" /\ solves[t] = 1 /\ FirstBlocked(t)
        /\ "user-agent" \in DOMAIN snap[t]
        /\ snap[t]["user-agent"] = <<sol[u].agent>>

\* Task t has merged a solve into the header cache.
Merged(t) == pc[t] \in {"read2", "held2", "await2"} \/ dispatches[t] = 2

\* The names every merge leaves in the header cache.
MergedNames == AlwaysSet \cup DOMAIN NavigationDefaults

\* C14: once a successful solve has been merged, the header cache holds a
\* User-Agent entry, both fetch-metadata entries and the five navigation
\* headers, each with a value; and no step removes a name from the header
\* cache, so this stays so under all later solves and requests.
C14_CacheKeepsEntries ==
    /\ []((\E t \in Tasks : Merged(t)) =>
             /\ MergedNames \subseteq DOMAIN headers
             /\ \A n \in MergedNames : Len(headers[n]) >= 1)
    /\ [][(DOMAIN headers) \subseteq (DOMAIN headers')]_vars

\* Two solves with different user agents have been merged, one after the
\* other, and a later call has been handled to its end.
C14_Witness ==
    \E t, u \in Tasks :
        /\ t # u /\ Merged(t) /\ Merged(u)
        /\ sol[t].agent # sol[u].agent
        /\ pc[t] = "done" /\ pc[u] = "done"
        /\ MergedNames \subseteq DOMAIN headers

\* C15 (as claimed): whatever sessions.create and sessions.list yield, new
\* neither returns an error nor is aborted by a panic: it ends with the
\* middleware.
C15_ConstructionYields == ctor \notin {"error", "panicked"}

\* C16 (as claimed): the alert sent on a 403 does not hold the call up: whether
\* its POST succeeds, fails or never completes, a call whose first response
\* was a 403 goes on to call the solver and comes to its end.
C16_AlertDetached ==
    \A t \in Tasks : FirstBlocked(t) ~> (solves[t] = 1 /\ Ended(t))

\* The cookies of task t's solve are in the cookie store and the header cache
\* does not hold the user agent of that solve yet.
HalfMerged(t) ==
    /\ pc[t] \in {"write", "merging"}
    /\ sol[t].items # << >>
    /\ AllStored(sol[t].items, cookie_jar)
    /\ ("user-agent" \notin DOMAIN headers \/ headers["user-agent"] # <<sol[t].agent>>)

\* C17 (as claimed): the cookies and the headers of a solve are merged as one
\* exclusive write: while the cookies of a solve are in the cookie store and
\* its user agent is not yet in the header cache, no other call holds the
\* read guard to take its header snapshot and be dispatched.
C17_MergeIsOneWrite ==
    \A t, u \in Tasks :
        (t # u /\ HalfMerged(t)) => pc[u] \notin {"held1", "held2"}

\* C18, the states: the task that merges holds the write guard and is alone
\* inside the cache; the tasks that take a snapshot hold read guards, any
\* number of them together, and never with a writer.
C18_Exclusion ==
    /\ writer # NoTask => readers = {}
    /\ readers = {t \in Tasks : pc[t] \in {"held1", "held2"}}
    /\ \A t \in Tasks : pc[t] = "merging" <=> writer = t

\* C18, the steps: the header cache is changed only by the task that holds
\* the write guard, with no reader inside; a snapshot is taken with no writer
\* inside, is the cache as it is then, and is what whole merges have left: the
\* empty cache or one with every name a merge sets.
C18_Steps ==
    /\ headers' # headers =>
          (writer \in Tasks /\ pc[writer] = "merging" /\ readers = {})
    /\ \A t \in Tasks :
          (pc[t] \in {"held1", "held2"} /\ pc'[t] \in {"await1", "await2"}) =>
              /\ writer = NoTask
              /\ snap'[t] = headers /\ headers' = headers
              /\ headers = EmptyHeaders \/ MergedNames \subseteq DOMAIN headers

\* C18: the reader/writer discipline of the header cache: a writer is never
\* inside with a reader or another writer, readers may be inside together,
\* and every snapshot is the cache before or after a whole merge.
C18_ReaderWriterDiscipline == []C18_Exclusion /\ [][C18_Steps]_vars

\* Two readers are inside together, one of them after its own merge, while
\* nobody writes.
C18_Witness ==
    \E t, u \in Tasks :
        /\ pc[t] = "held2" /\ pc[u] = "held1"
        /\ {t, u} \subseteq readers /\ writer = NoTask
        /\ headers["user-agent"] = <<sol[t].agent>>

\* The answer p of the solver has a cookies array with a cookie that cannot be
\* decoded or whose domain gives no URL.
HasBadCookie(p) ==
    /\ p.transport /\ p.json /\ p.solution /\ p.cookies = "array"
    /\ \E i \in 1..Len(p.items) : ~ParseCookieOk(p.items[i])

\* C19 (as claimed): a cookie of the answer that cannot be decoded, or whose
\* domain does not parse as a URL, makes the solve fail with the typed error
\* CookieFormatError or UrlParseError, returned to the caller of handle; the
\* task is not aborted, and the cookies listed before it in the answer are
\* not left in the cookie store.
C19_BadCookieTypedError ==
    [][\A t \in Tasks :
          (pc[t] = "solving" /\ pc'[t] # "solving" /\ HasBadCookie(sol'[t])) =>
              /\ pc'[t] = "done"
              /\ result'[t].kind = "err"
              /\ result'[t].why \in {"CookieFormatError", "UrlParseError"}
              /\ cookie_jar' = cookie_jar]_vars

\* The Set-Cookie string the spec gives for a cookie object c of the solver
\* protocol: every attribute whose payload field (path, domain, secure,
\* httpOnly, sameSite, expires) is present, a boolean one when it is true.
ClaimedSetCookie(c) ==
    <<c["name"], "=", c["value"]>>
    \o (IF "path" \in DOMAIN c THEN <<"; Path=", c["path"]>> ELSE << >>)
    \o (IF "domain" \in DOMAIN c THEN <<"; Domain=">> \o c["domain"] ELSE << >>)
    \o (IF "secure" \in DOMAIN c /\ c["secure"] THEN <<"; Secure">> ELSE << >>)
    \o (IF "httpOnly" \in DOMAIN c /\ c["httpOnly"] THEN <<"; HttpOnly">> ELSE << >>)
    \o (IF "sameSite" \in DOMAIN c THEN <<"; SameSite=", c["sameSite"]>> ELSE << >>)
    \o (IF "expires" \in DOMAIN c THEN <<"; Expires=", Rfc2822(c["expires"])>> ELSE << >>)

\* C20 (as claimed): the Set-Cookie string built for a cookie object of the
\* solver protocol is name=value followed by Path, Domain, Secure, HttpOnly,
\* SameSite and Expires, in this order, each present exactly when the field
\* of the payload is (httpOnly=true gives "; HttpOnly", sameSite=S gives
\* "; SameSite=S"): every cookie of an answer is handed to the cookie store
\* as that string.
C20_SetCookieOfPayload ==
    [][\A t \in Tasks :
          JarStep(t) =>
              \A i \in 1..Len(sol'[t].items) :
                  /\ parse_cookie(sol'[t].items[i])[1] = ClaimedSetCookie(sol'[t].items[i])
                  /\ \E e \in cookie_jar' : e.str = ClaimedSetCookie(sol'[t].items[i])]_vars

\* The origin the spec binds a cookie of domain d to: https://<d> with one
\* leading dot removed, if d has one.
ClaimedOrigin(d) ==
    <<"https://">> \o (IF d # << >> /\ Head(d) = "." THEN Tail(d) ELSE d)

\* C21 (as claimed): every cookie handed to the cookie store is bound to
\* https://<d>, d being its domain with exactly one leading dot removed:
\* .example.com and example.com are bound to https://example.com, and of two
\* leading dots only the first is removed.
C21_OneDotStripped ==
    \A e \in cookie_jar :
        HasAttr(e.str, "; Domain=") => e.url = ClaimedOrigin(AttrOf(e.str, "; Domain="))

\* No solve is in progress: no task is between the call of the solver and the
\* end of its merge.
Quiescent == \A t \in Tasks : pc[t] \notin {"solving", "write", "merging"}

\* C22 (as claimed): in every quiescent state reached by successful solves
\* only, the User-Agent of the header cache and the cookies of the cookie
\* store come from one and the same solve: some merged solve has its user
\* agent in the cache and each of its cookies in the store, as it gave them.
C22_CredentialsOfOneSolve ==
    (/\ Quiescent
     /\ \A t \in Tasks : sol[t] \in SolvedAnswers \cup {NoAnswer}
     /\ \E t \in Tasks : Merged(t))
    => \E t \in Tasks :
          /\ Merged(t)
          /\ headers["user-agent"] = <<sol[t].agent>>
          /\ AllStored(sol[t].items, cookie_jar)

\* Task t is suspended on something outside the middleware: a downstream
\* dispatch, the alert POST or the call of the solver.
Suspended(t) == pc[t] \in {"await1", "alert", "solving", "await2"}

\* C23: a task suspended on a dispatch, on the alert or on the solver holds
\* neither a read guard nor the write guard of the header cache; so a task
\* that wants its header snapshot while every other task is so suspended
\* gets the read guard.
C23_NoGuardAcrossAwait ==
    \A t \in Tasks :
        /\ Suspended(t) => (t \notin readers /\ writer # t)
        /\ (pc[t] \in {"read1", "read2"} /\ \A u \in Tasks \ {t} : Suspended(u))
              => (CanRead /\ (ENABLED AcquireRead1(t) \/ ENABLED AcquireRead2(t)))

\* A task takes its header snapshot while another waits for the solver, and
\* the first response of the one that waits was dispatched without a guard.
C23_Witness ==
    \E t, u \in Tasks :
        /\ t # u
        /\ pc[u] = "solving" /\ dispatches[u] = 1
        /\ pc[t] = "held1" /\ t \in readers

\* Task t waits for a guard of the header cache that it cannot get now.
LockBlocked(t) ==
    \/ pc[t] \in {"read1", "read2"} /\ ~CanRead
    \/ pc[t] = "write" /\ ~CanWrite

\* C24, termination: a call that has begun comes to its end.
C24_Terminates == \A t \in Tasks : (pc[t] = "read1") ~> Ended(t)

\* C24, the lock: in no state do all tasks wait for a guard they cannot get.
C24_NoLockDeadlock == ~(\A t \in Tasks : LockBlocked(t))

\* C24, the result: a call that has ended has returned a response or an error.
C24_EndsWithResult == \A t \in Tasks : Ended(t) => result[t].kind \in {"ok", "err"}

\* C24 (as claimed): when every dispatch, alert and solver call returns and
\* the lock is fair, every call of handle finishes with a response or an
\* error, and no reachable state has all tasks blocked on the header cache.
C24_FinishesWithResult ==
    C24_Terminates /\ []C24_NoLockDeadlock /\ []C24_EndsWithResult

\* The cookie store has an entry under the key of every cookie of the list.
AllKeysStored(items, jar) ==
    \A i \in 1..Len(items) :
        \E e \in jar :
            JarKey(e) = JarKey(JarEntry(parse_cookie(items[i])[1], parse_cookie(items[i])[2]))

\* C25, the states: a call whose first dispatch gave an error has returned
\* that error, with no alert, no solve and one dispatch; a call that returned
\* the error of its retry has made its solve, and what the solve merged is in
\* the header cache and the cookie store.
C25_ErrorReturned ==
    \A t \in Tasks :
        /\ first[t].err =>
              /\ pc[t] = "done" /\ result[t] = Res("err", 0, 1, "next")
              /\ alerts[t] = 0 /\ solves[t] = 0 /\ dispatches[t] = 1
        /\ (result[t].kind = "err" /\ result[t].attempt = 2) =>
              /\ pc[t] = "done" /\ FirstBlocked(t) /\ dispatches[t] = 2
              /\ solves[t] = 1 /\ sol[t] \in SolvedAnswers
              /\ MergedNames \subseteq DOMAIN headers
              /\ AllKeysStored(sol[t].items, cookie_jar)

\* C25, the steps: the step in which a dispatch ends with an error returns
\* the error of that dispatch and leaves the header cache and the cookie
\* store as they are.
C25_ErrorStep ==
    \A t \in Tasks :
        (InFlight(t) /\ result'[t].kind = "err") =>
            /\ pc'[t] = "done"
            /\ result'[t] = Res("err", 0, IF pc[t] = "await1" THEN 1 ELSE 2, "next")
            /\ UNCHANGED <<headers, cookie_jar, alerts, solves>>

\* C25: an error of next is what handle returns: on the first dispatch without
\* alert, solve or change of the shared state; on the retry with the merged
\* cookies and headers left in the shared state.
C25_NextErrorPropagated == []C25_ErrorReturned /\ [][C25_ErrorStep]_vars

\* One call has returned the error of its retry, its cookies and its user
\* agent being in the shared state, and another the error of its first
\* dispatch.
C25_Witness ==
    \E t, u \in Tasks :
        /\ result[t] = Res("err", 0, 2, "next")
        /\ sol[t].items # << >> /\ AllStored(sol[t].items, cookie_jar)
        /\ headers["user-agent"] = <<sol[t].agent>>
        /\ result[u] = Res("err", 0, 1, "next") /\ first[u].err

\* No solve has been merged into the header cache yet.
NoMergeYet == \A t \in Tasks : ~Merged(t)

\* C26, the states: from its construction to the first merge the pipeline
\* has an empty header cache, and a request in flight then has exactly the
\* headers its caller gave it; no call runs before new has returned.
C26_EmptyBeforeMerge ==
    /\ NoMergeYet =>
          /\ headers = EmptyHeaders
          /\ \A t \in Tasks : InFlight(t) => (req[t] = orig[t] /\ snap[t] = EmptyHeaders)
    /\ ctor # "built" => \A t \in Tasks : pc[t] = "idle"

\* C26, the steps: the header cache is changed by the merge of a solve only.
C26_OnlyMergeWrites ==
    headers' # headers => \E t \in Tasks : MergeStep(t)

\* C26: a newly constructed pipeline has an empty header cache, which stays
\* empty until the first merge of a successful solve; until then every
\* request is dispatched with exactly the headers of its caller.
C26_EmptyUntilFirstMerge == []C26_EmptyBeforeMerge /\ [][C26_OnlyMergeWrites]_vars

\* Before any merge, on the pipeline new has returned: a request with three
\* headers of its own is in flight while another call, answered by the
\* solver, waits to merge.
C26_Witness ==
    \E t, u \in Tasks :
        /\ ctor = "built" /\ NoMergeYet
        /\ pc[t] = "await1" /\ Cardinality(DOMAIN orig[t]) = 3
        /\ pc[u] = "merging" /\ sol[u] \in SolvedAnswers /\ cookie_jar # {}

=============================================================================
